---- MODULE Spec2Model ----
(***************************************************************************)
(* Guess-and-check search for a Nash-stable assignment in a star network.  *)
(*                                                                         *)
(* src/main.py  ColourCodingStarNetworkWithPreferences (preference style)  *)
(* src/test.py  ColourCodingStarNetwork                (capacity style)    *)
(*                                                                         *)
(* Python values are represented as follows: a list is a sequence, a       *)
(* tuple (activity, size) is the pair <<activity, size>>, a dict is a      *)
(* function, a set of activities is a set of strings, and the booleans     *)
(* returned by the verifiers are the strings "True" and "False" so that a  *)
(* raised KeyError can be a third outcome of the same operator.            *)
(***************************************************************************)
EXTENDS Integers, Sequences, FiniteSets, TLC

VARIABLES
    style,            \* "pref" (src/main.py) or "cap" (src/test.py)
    central_player,   \* self.central_player
    leaf_players,     \* self.leaf_players, a list
    activities,       \* self.activities, a list
    preferences,      \* self.preferences, player -> list of (activity, size)
    order,            \* iteration order of Python's sets of activity names
    pc,               \* position of the running entry point
    h,                \* center_assignment under test
    U,                \* activities_in_use under test
    L,                \* colouring under test / last colouring produced
    ci,               \* index of the current center guess
    si,               \* index of the current activity guess
    k,                \* index of the current colouring in its list
    result,           \* value produced by the entry point
    stable_assignments, \* the list find_all_nash_stable_assignments accumulates
    nVerified,        \* history: calls of is_assignment_stable so far
    nAccepted         \* history: calls that returned True so far

config == <<style, central_player, leaf_players, activities, preferences, order>>
vars == <<style, central_player, leaf_players, activities, preferences, order,
          pc, h, U, L, ci, si, k, result, stable_assignments,
          nVerified, nAccepted>>

-----------------------------------------------------------------------------
(* Bounds of the model *)

MaxLeaves == 2
MaxSize == 2
MaxPrefLen == 2

(* Program constants *)

NumSamples == 100

void_activity == "void"

Central == "C"
AllLeaves == <<"L1", "L2", "L3", "L4">>
ActivityNames == {"A", "B"}

-----------------------------------------------------------------------------
(* Python built-ins used by the code *)

Range(s) == {s[i] : i \in 1..Len(s)}

\* x in list
InList(x, s) == \E i \in 1..Len(s) : s[i] = x

\* list(a_set): the elements of the set in the set's iteration order.
ListOfSet(S, ord) == SelectSeq(ord, LAMBDA a : a \in S)

RECURSIVE Concat(_)
Concat(ss) == IF ss = <<>> THEN <<>> ELSE Head(ss) \o Concat(Tail(ss))

\* itertools.product(*lists): tuples in lexicographic order, the first
\* list varying slowest.
RECURSIVE Product(_)
Product(lists) ==
    IF lists = <<>> THEN << <<>> >>
    ELSE LET rest == Product(Tail(lists))
             hd == Head(lists)
         IN Concat([i \in 1..Len(hd) |->
                      [j \in 1..Len(rest) |-> <<hd[i]>> \o rest[j]]])

\* dict(zip(keys, values))
DictZip(keys, values) ==
    [p \in Range(keys) |->
        values[CHOOSE i \in 1..Len(keys) :
                  keys[i] = p /\ \A j \in (i+1)..Len(keys) : keys[j] # p]]

\* {**d, key: value}
DictWith(d, key, value) ==
    [p \in DOMAIN d \cup {key} |-> IF p = key THEN value ELSE d[p]]

\* itertools.combinations(list, size): index-increasing selections, in
\* lexicographic order of the index tuples.
RECURSIVE Combinations(_, _)
Combinations(s, size) ==
    IF size = 0 THEN << <<>> >>
    ELSE IF Len(s) < size THEN <<>>
    ELSE LET withHead == Combinations(Tail(s), size - 1)
         IN [j \in 1..Len(withHead) |-> <<Head(s)>> \o withHead[j]]
            \o Combinations(Tail(s), size)

EmptyDict == [p \in {} |-> ""]

-----------------------------------------------------------------------------
(* src/main.py: ColourCodingStarNetworkWithPreferences *)

\* self.preferences.get(self.central_player, [])
guess_center_assignment(prefs, central) ==
    IF central \in DOMAIN prefs THEN prefs[central] ELSE <<>>

\* [set(pref[0] for pref in self.preferences[self.central_player])]
activity_guesses(prefs, central) ==
    << {prefs[central][i][1] : i \in 1..Len(prefs[central])} >>

\* possible_colours as it would be if void were not appended to the list
possible_colours_without_void(Uset, ord) == ListOfSet(Uset, ord)

\* list(activities_in_use) + [self.void_activity]
possible_colours(Uset, ord) == ListOfSet(Uset, ord) \o <<void_activity>>

\* preferred_activities as it would be without the filter on activities_in_use
preferred_activities_unfiltered(prefs, leaf, Uset) ==
    [i \in 1..Len(prefs[leaf]) |-> prefs[leaf][i][1]]

\* [pref[0] for pref in self.preferences[leaf] if pref[0] in activities_in_use]
preferred_activities(prefs, leaf, Uset) ==
    LET kept == SelectSeq(prefs[leaf], LAMBDA pref : pref[1] \in Uset)
    IN [i \in 1..Len(kept) |-> kept[i][1]]

\* One assignment built by random_colouring: random.choice draws each leaf's
\* colour from possible_colours.  The operator is the set of assignments one
\* iteration of the sampling loop can append.
random_colouring(leaves, Uset, ord) ==
    [Range(leaves) -> Range(possible_colours(Uset, ord))]

\* One assignment built by random_colouring_opti.
random_colouring_opti(prefs, leaves, Uset) ==
    {f \in [Range(leaves) -> ActivityNames \cup {void_activity}] :
        \A leaf \in Range(leaves) :
            f[leaf] \in Range(preferred_activities(prefs, leaf, Uset)
                              \o <<void_activity>>)}

\* weights of heuristic_colouring for one leaf
heuristic_weights(prefs, leaf, Uset) ==
    LET pa == preferred_activities(prefs, leaf, Uset)
    IN [i \in 1..Len(pa) |-> Len(prefs[leaf]) - (i - 1)] \o <<1>>

\* One assignment built by heuristic_colouring: random.choices returns an
\* element whose weight is positive.
heuristic_colouring(prefs, leaves, Uset) ==
    {f \in [Range(leaves) -> ActivityNames \cup {void_activity}] :
        \A leaf \in Range(leaves) :
            LET pc_ == preferred_activities(prefs, leaf, Uset) \o <<void_activity>>
                w == heuristic_weights(prefs, leaf, Uset)
            IN \E i \in 1..Len(pc_) : pc_[i] = f[leaf] /\ w[i] > 0}

\* exhaustive_colouring as it would be if the last tuple of the product were lost
exhaustive_colouring_short(leaves, Uset, ord) ==
    LET pcs == ListOfSet(Uset, ord) \o <<void_activity>>
        prod == Product([i \in 1..Len(leaves) |-> pcs])
    IN [j \in 1..(Len(prod) - 1) |-> DictZip(leaves, prod[j])]

\* exhaustive_colouring: the list of all assignments
exhaustive_colouring(leaves, Uset, ord) ==
    LET pcs == possible_colours(Uset, ord)
        prod == Product([i \in 1..Len(leaves) |-> pcs])
    IN [j \in 1..Len(prod) |-> DictZip(leaves, prod[j])]

\* exhaustive_colouring_opti: the list of all preference-filtered assignments
exhaustive_colouring_opti(prefs, leaves, Uset) ==
    LET all_options == [i \in 1..Len(leaves) |->
                          preferred_activities(prefs, leaves[i], Uset)
                          \o <<void_activity>>]
        prod == Product(all_options)
    IN [j \in 1..Len(prod) |-> DictZip(leaves, prod[j])]

\* for leaf, activity in leaf_assignment.items(): activity_count[activity] += 1
RECURSIVE CountLoop(_, _, _)
CountLoop(count, la, leaves) ==
    IF leaves = <<>> THEN count
    ELSE CountLoop([count EXCEPT ![la[Head(leaves)]] = @ + 1], la, Tail(leaves))

\* activity_count of main.py: counters for activities_in_use, void and the
\* center's activity.
activity_count(center_assignment, Uset, la, leaves) ==
    CountLoop([a \in Uset \cup {void_activity, center_assignment[1]} |-> 0],
              la, leaves)

\* is_assignment_stable as it would be if the deviation of a void leaf were
\* tested against the current group size instead of the size after joining
is_assignment_stable_no_join(prefs, central, leaves, center_assignment, Uset, la) ==
    LET center_activity == center_assignment[1]
        keys == Uset \cup {void_activity, center_activity}
        cnt == activity_count(center_assignment, Uset, la, leaves)
    IN IF \E i \in 1..Len(leaves) : la[leaves[i]] \notin keys
         THEN "KeyError"
       ELSE IF ~InList(center_assignment, prefs[central])
         THEN "False"
       ELSE IF \E i \in 1..Len(leaves) :
                 /\ ~InList(<<la[leaves[i]], cnt[la[leaves[i]]]>>, prefs[leaves[i]])
                 /\ la[leaves[i]] # void_activity
         THEN "False"
       ELSE IF \E i \in 1..Len(leaves) :
                 /\ la[leaves[i]] = void_activity
                 /\ \E alt_activity \in Uset :
                       InList(<<alt_activity, cnt[alt_activity]>>,
                              prefs[leaves[i]])
         THEN "False"
       ELSE "True"

\* is_assignment_stable as it would be if it also compared the number of
\* leaves on the center's activity with the center's group size
is_assignment_stable_center_size(prefs, central, leaves, center_assignment, Uset, la) ==
    LET center_activity == center_assignment[1]
        keys == Uset \cup {void_activity, center_activity}
        cnt == activity_count(center_assignment, Uset, la, leaves)
    IN IF \E i \in 1..Len(leaves) : la[leaves[i]] \notin keys
         THEN "KeyError"
       ELSE IF ~InList(center_assignment, prefs[central])
         THEN "False"
       ELSE IF cnt[center_activity] # center_assignment[2]
         THEN "False"
       ELSE IF \E i \in 1..Len(leaves) :
                 /\ ~InList(<<la[leaves[i]], cnt[la[leaves[i]]]>>, prefs[leaves[i]])
                 /\ la[leaves[i]] # void_activity
         THEN "False"
       ELSE IF \E i \in 1..Len(leaves) :
                 /\ la[leaves[i]] = void_activity
                 /\ \E alt_activity \in Uset :
                       InList(<<alt_activity, cnt[alt_activity] + 1>>,
                              prefs[leaves[i]])
         THEN "False"
       ELSE "True"

is_assignment_stable(prefs, central, leaves, center_assignment, Uset, la) ==
    LET center_activity == center_assignment[1]
        keys == Uset \cup {void_activity, center_activity}
        cnt == activity_count(center_assignment, Uset, la, leaves)
    IN IF \E i \in 1..Len(leaves) : la[leaves[i]] \notin keys
         THEN "KeyError"
       ELSE IF ~InList(center_assignment, prefs[central])
         THEN "False"
       ELSE IF \E i \in 1..Len(leaves) :
                 /\ ~InList(<<la[leaves[i]], cnt[la[leaves[i]]]>>, prefs[leaves[i]])
                 /\ la[leaves[i]] # void_activity
         THEN "False"
       ELSE IF \E i \in 1..Len(leaves) :
                 /\ la[leaves[i]] = void_activity
                 /\ \E alt_activity \in Uset :
                       InList(<<alt_activity, cnt[alt_activity] + 1>>,
                              prefs[leaves[i]])
         THEN "False"
       ELSE "True"

-----------------------------------------------------------------------------
(* src/test.py: ColourCodingStarNetwork *)

\* guess_center_assignment: (activity, k) for k in 1..len(leaf_players)+1
cap_guess_center_assignment(acts, leaves) ==
    Concat([i \in 1..Len(acts) |->
              [kk \in 1..(Len(leaves) + 1) |-> <<acts[i], kk>>]])

\* guess_activities_in_use: the non-empty combinations, by increasing size
guess_activities_in_use(acts) ==
    LET combos == Concat([size \in 1..Len(acts) |-> Combinations(acts, size)])
    IN [j \in 1..Len(combos) |-> Range(combos[j])]

\* The assignment random_colouring of test.py appends at every iteration:
\* possible_colours[i % len(possible_colours)] for the i-th leaf.
cap_random_colouring(leaves, Uset, ord) ==
    LET pcs == possible_colours(Uset, ord)
    IN DictZip(leaves, [i \in 1..Len(leaves) |-> pcs[((i - 1) % Len(pcs)) + 1]])

\* activity_count of test.py: counters for activities_in_use and void only.
cap_activity_count(Uset, la, leaves) ==
    CountLoop([a \in Uset \cup {void_activity} |-> 0], la, leaves)

cap_is_assignment_stable(leaves, center_assignment, Uset, la) ==
    LET center_activity == center_assignment[1]
        center_group_size == center_assignment[2]
        keys == Uset \cup {void_activity}
        cnt == cap_activity_count(Uset, la, leaves)
    IN IF \E i \in 1..Len(leaves) : la[leaves[i]] \notin keys
         THEN "KeyError"
       ELSE IF center_activity \notin keys
         THEN "KeyError"
       ELSE IF cnt[center_activity] # center_group_size
         THEN "False"
       ELSE IF \E activity \in Uset :
                 cnt[activity] # 1 /\ activity # center_activity
         THEN "False"
       ELSE IF \E i \in 1..Len(leaves) :
                 /\ la[leaves[i]] = void_activity
                 /\ \E alt_activity \in Uset :
                       alt_activity # void_activity /\ cnt[alt_activity] < 2
         THEN "False"
       ELSE "True"

-----------------------------------------------------------------------------
(* Configurations the entry points are run on *)

PrefPairs == ActivityNames \X (1..MaxSize)

\* every preference list of at most n entries
PrefListsUpTo(n) == UNION {[1..m -> PrefPairs] : m \in 0..n}

LeafLists == {SubSeq(AllLeaves, 1, n) : n \in 1..MaxLeaves}

\* iteration orders of a set of activity names
Orders == {<<"A", "B">>, <<"B", "A">>}

\* declared activity lists (distinct names)
ActivityLists == {<<"A">>, <<"A", "B">>, <<"B", "A">>}

NonEmptySubsets(S) == SUBSET S \ {{}}

None == [kind |-> "None", value |-> EmptyDict]
Unset == [kind |-> "unset", value |-> EmptyDict]
Returned(v) == [kind |-> "value", value |-> v]
Raised(e) == [kind |-> "raised", value |-> e]

\* ColourCodingStarNetworkWithPreferences.__init__ on a configuration whose
\* central list is in centerLists and whose leaf lists are in leafLists
InitPref(centerLists, leafLists) ==
    /\ style = "pref"
    /\ central_player = Central
    /\ leaf_players \in LeafLists
    /\ activities = <<"A", "B">>
    /\ \E cl \in centerLists :
         \E lp \in [Range(leaf_players) -> leafLists] :
            preferences = [p \in {Central} \cup Range(leaf_players) |->
                              IF p = Central THEN cl ELSE lp[p]]
    /\ order \in Orders

\* ColourCodingStarNetwork.__init__
InitCap ==
    /\ style = "cap"
    /\ central_player = Central
    /\ leaf_players \in LeafLists
    /\ activities \in ActivityLists
    /\ preferences = EmptyDict
    /\ order \in Orders

InitCall ==
    /\ pc = "call"
    /\ h = <<"A", 1>>
    /\ U = {}
    /\ L = EmptyDict
    /\ ci = 1 /\ si = 1 /\ k = 1
    /\ result = Unset
    /\ stable_assignments = <<>>
    /\ nVerified = 0
    /\ nAccepted = 0

-----------------------------------------------------------------------------
(* The stability verifiers as entry points *)

\* is_assignment_stable of main.py called on a center hypothesis over a
\* declared activity, a non-empty subset and a colouring over it.
VerifyPref ==
    /\ pc = "call" /\ style = "pref"
    /\ \E hh \in PrefPairs, UU \in NonEmptySubsets(ActivityNames) :
         \E la \in [Range(leaf_players) -> UU \cup {void_activity}] :
            /\ h' = hh /\ U' = UU /\ L' = la
            /\ LET v == is_assignment_stable(preferences, central_player,
                                             leaf_players, hh, UU, la)
               IN result' = IF v = "KeyError" THEN Raised(v) ELSE Returned(v)
    /\ pc' = "done"
    /\ UNCHANGED <<config, ci, si, k, stable_assignments, nVerified, nAccepted>>

\* is_assignment_stable of test.py called the same way.
VerifyCap ==
    /\ pc = "call" /\ style = "cap"
    /\ \E hh \in Range(cap_guess_center_assignment(activities, leaf_players)),
          UU \in NonEmptySubsets(Range(activities)) :
         \E la \in [Range(leaf_players) -> UU \cup {void_activity}] :
            /\ h' = hh /\ U' = UU /\ L' = la
            /\ LET v == cap_is_assignment_stable(leaf_players, hh, UU, la)
               IN result' = IF v = "KeyError" THEN Raised(v) ELSE Returned(v)
    /\ pc' = "done"
    /\ UNCHANGED <<config, ci, si, k, stable_assignments, nVerified, nAccepted>>

InitVerify ==
    /\ \/ InitPref(PrefListsUpTo(MaxPrefLen), PrefListsUpTo(MaxPrefLen))
       \/ InitCap
    /\ InitCall

NextVerify == VerifyPref \/ VerifyCap

SpecVerify == InitVerify /\ [][NextVerify]_vars

-----------------------------------------------------------------------------
(* The colouring samplers as entry points.  A random sampler returns a list *)
(* of NumSamples assignments drawn independently and identically; L is any *)
(* one element of the returned list.  For an exhaustive sampler L is the   *)
(* k-th element of the returned list.                                      *)

RandomColouring ==
    /\ pc = "call" /\ style = "pref"
    /\ \E UU \in SUBSET ActivityNames :
         /\ U' = UU
         /\ L' \in random_colouring(leaf_players, UU, order)
    /\ pc' = "random_colouring"
    /\ UNCHANGED <<config, h, ci, si, k, result, stable_assignments,
                   nVerified, nAccepted>>

RandomColouringOpti ==
    /\ pc = "call" /\ style = "pref"
    /\ \E UU \in SUBSET ActivityNames :
         /\ U' = UU
         /\ L' \in random_colouring_opti(preferences, leaf_players, UU)
    /\ pc' = "random_colouring_opti"
    /\ UNCHANGED <<config, h, ci, si, k, result, stable_assignments,
                   nVerified, nAccepted>>

HeuristicColouring ==
    /\ pc = "call" /\ style = "pref"
    /\ \E UU \in SUBSET ActivityNames :
         /\ U' = UU
         /\ L' \in heuristic_colouring(preferences, leaf_players, UU)
    /\ pc' = "heuristic_colouring"
    /\ UNCHANGED <<config, h, ci, si, k, result, stable_assignments,
                   nVerified, nAccepted>>

ExhaustiveColouring ==
    /\ pc = "call" /\ style = "pref"
    /\ \E UU \in SUBSET ActivityNames :
         LET all == exhaustive_colouring(leaf_players, UU, order)
         IN \E j \in 1..Len(all) :
              /\ U' = UU
              /\ k' = j
              /\ L' = all[j]
    /\ pc' = "exhaustive_colouring"
    /\ UNCHANGED <<config, h, ci, si, result, stable_assignments,
                   nVerified, nAccepted>>

ExhaustiveColouringOpti ==
    /\ pc = "call" /\ style = "pref"
    /\ \E UU \in SUBSET ActivityNames :
         LET all == exhaustive_colouring_opti(preferences, leaf_players, UU)
         IN \E j \in 1..Len(all) :
              /\ U' = UU
              /\ k' = j
              /\ L' = all[j]
    /\ pc' = "exhaustive_colouring_opti"
    /\ UNCHANGED <<config, h, ci, si, result, stable_assignments,
                   nVerified, nAccepted>>

CapRandomColouring ==
    /\ pc = "call" /\ style = "cap"
    /\ \E UU \in SUBSET Range(activities) :
         /\ U' = UU
         /\ L' = cap_random_colouring(leaf_players, UU, order)
    /\ pc' = "cap_random_colouring"
    /\ UNCHANGED <<config, h, ci, si, k, result, stable_assignments,
                   nVerified, nAccepted>>

InitSample ==
    /\ \/ InitPref(PrefListsUpTo(MaxPrefLen), PrefListsUpTo(MaxPrefLen))
       \/ InitCap
    /\ InitCall

NextSample ==
    \/ RandomColouring
    \/ RandomColouringOpti
    \/ HeuristicColouring
    \/ ExhaustiveColouring
    \/ ExhaustiveColouringOpti
    \/ CapRandomColouring

SpecSample == InitSample /\ [][NextSample]_vars

-----------------------------------------------------------------------------
(* find_nash_stable_assignment (main.py and test.py).  The list of         *)
(* NumSamples colourings of one (center, subset) pair is drawn element by  *)
(* element as the inner loop reaches it: the elements are independent, so  *)
(* the colouring handed to the verifier at index k is any colouring the    *)
(* sampler can put there.                                                  *)

CenterGuesses ==
    IF style = "pref" THEN guess_center_assignment(preferences, central_player)
    ELSE cap_guess_center_assignment(activities, leaf_players)

ActivityGuesses ==
    IF style = "pref" THEN activity_guesses(preferences, central_player)
    ELSE guess_activities_in_use(activities)

\* the three loop headers: center_guesses and activity_guesses are computed
\* and the first triple, if any, is selected
FindOneBegin ==
    /\ pc = "call"
    /\ IF Len(CenterGuesses) = 0 \/ Len(ActivityGuesses) = 0
         THEN pc' = "returned" /\ result' = None
         ELSE pc' = "loop" /\ result' = result
    /\ UNCHANGED <<config, h, U, L, ci, si, k, stable_assignments,
                   nVerified, nAccepted>>

\* an iteration of the innermost loop whose colouring the verifier rejects:
\* the loops move on to the next triple, or run out and None is returned
FindOneReject ==
    /\ nVerified' = nVerified + 1
    /\ IF k < NumSamples
         THEN /\ k' = k + 1
              /\ UNCHANGED <<ci, si, pc, result>>
       ELSE IF si < Len(ActivityGuesses)
         THEN /\ si' = si + 1 /\ k' = 1
              /\ UNCHANGED <<ci, pc, result>>
       ELSE IF ci < Len(CenterGuesses)
         THEN /\ ci' = ci + 1 /\ si' = 1 /\ k' = 1
              /\ UNCHANGED <<pc, result>>
       ELSE /\ result' = None
            /\ pc' = "returned"
            /\ UNCHANGED <<ci, si, k>>
    /\ UNCHANGED <<config, h, U, L, stable_assignments, nAccepted>>

\* an iteration of the innermost loop that ends the search on `colouring`:
\* the verifier returned True (v = "True") or raised (v = "KeyError").
\* h, U and L keep the triple of this last call.
FindOneStop(colouring, v) ==
    /\ h' = CenterGuesses[ci]
    /\ U' = ActivityGuesses[si]
    /\ L' = colouring
    /\ nVerified' = nVerified + 1
    /\ IF v = "True"
         THEN /\ result' = Returned(DictWith(colouring, central_player,
                                             CenterGuesses[ci][1]))
              /\ pc' = "returned"
              /\ nAccepted' = nAccepted + 1
         ELSE /\ result' = Raised(v)
              /\ pc' = "raised"
              /\ nAccepted' = nAccepted
    /\ UNCHANGED <<config, ci, si, k, stable_assignments>>

PrefVerdict(colouring) ==
    is_assignment_stable(preferences, central_player, leaf_players,
                         CenterGuesses[ci], ActivityGuesses[si], colouring)

CapVerdict(colouring) ==
    cap_is_assignment_stable(leaf_players, CenterGuesses[ci],
                             ActivityGuesses[si], colouring)

FindOneIteratePref ==
    /\ pc = "loop" /\ style = "pref"
    /\ \/ /\ \E colouring \in random_colouring(leaf_players, ActivityGuesses[si], order) :
               PrefVerdict(colouring) = "False"
          /\ FindOneReject
       \/ \E colouring \in random_colouring(leaf_players, ActivityGuesses[si], order) :
            /\ PrefVerdict(colouring) # "False"
            /\ FindOneStop(colouring, PrefVerdict(colouring))

FindOneIterateCap ==
    /\ pc = "loop" /\ style = "cap"
    /\ LET colouring == cap_random_colouring(leaf_players, ActivityGuesses[si], order)
       IN IF CapVerdict(colouring) = "False"
            THEN FindOneReject
            ELSE FindOneStop(colouring, CapVerdict(colouring))

\* The search is run on every central list of the bounds and on leaves that
\* accept at most one (activity, size) pair.
InitFindOne ==
    /\ \/ InitPref(PrefListsUpTo(MaxPrefLen), PrefListsUpTo(1))
       \/ InitCap
    /\ InitCall

NextFindOne == FindOneBegin \/ FindOneIteratePref \/ FindOneIterateCap

SpecFindOne == InitFindOne /\ [][NextFindOne]_vars

-----------------------------------------------------------------------------
(* find_all_nash_stable_assignments (main.py) *)

FindAllBegin ==
    /\ pc = "call" /\ style = "pref"
    /\ IF Len(CenterGuesses) = 0 \/ Len(ActivityGuesses) = 0
         THEN pc' = "returned" /\ result' = Returned(stable_assignments)
         ELSE pc' = "loop" /\ result' = result
    /\ UNCHANGED <<config, h, U, L, ci, si, k, stable_assignments,
                   nVerified, nAccepted>>

\* one iteration of the innermost loop
FindAllIterate ==
    /\ pc = "loop" /\ style = "pref"
    /\ LET ca == CenterGuesses[ci]
           au == ActivityGuesses[si]
           all_colours == exhaustive_colouring(leaf_players, au, order)
           colouring == all_colours[k]
           v == is_assignment_stable(preferences, central_player, leaf_players,
                                     ca, au, colouring)
           acc == IF v = "True"
                    THEN Append(stable_assignments,
                                DictWith(colouring, central_player, ca[1]))
                    ELSE stable_assignments
       IN /\ h' = ca /\ U' = au /\ L' = colouring
          /\ nVerified' = nVerified + 1
          /\ nAccepted' = IF v = "True" THEN nAccepted + 1 ELSE nAccepted
          /\ stable_assignments' = acc
          /\ IF v = "KeyError"
               THEN /\ result' = Raised(v)
                    /\ pc' = "raised"
                    /\ UNCHANGED <<ci, si, k>>
             ELSE IF k < Len(all_colours)
               THEN /\ k' = k + 1
                    /\ UNCHANGED <<ci, si, pc, result>>
             ELSE IF si < Len(ActivityGuesses)
               THEN /\ si' = si + 1 /\ k' = 1
                    /\ UNCHANGED <<ci, pc, result>>
             ELSE IF ci < Len(CenterGuesses)
               THEN /\ ci' = ci + 1 /\ si' = 1 /\ k' = 1
                    /\ UNCHANGED <<pc, result>>
             ELSE /\ result' = Returned(acc)
                  /\ pc' = "returned"
                  /\ UNCHANGED <<ci, si, k>>
    /\ UNCHANGED config

InitFindAll ==
    /\ InitPref(PrefListsUpTo(MaxPrefLen), PrefListsUpTo(MaxPrefLen))
    /\ InitCall

NextFindAll == FindAllBegin \/ FindAllIterate

SpecFindAll == InitFindAll /\ [][NextFindAll]_vars

-----------------------------------------------------------------------------
(* Properties *)

\* number of leaves a colouring puts on activity x
Occupancy(la, x) == Cardinality({leaf \in DOMAIN la : la[leaf] = x})

\* the pair (x, n) is one of the player's preference entries
Lists(player, x, n) ==
    \E i \in DOMAIN preferences[player] : preferences[player][i] = <<x, n>>

VerifierDone == pc = "done"
VerifierAccepted == pc = "done" /\ result.kind = "value" /\ result.value = "True"

\* C1: whenever is_assignment_stable accepts ((a*, k*), U, L), the number of
\* players on a* (the leaves L puts on a*, plus the central player) is k*.
C1_CenterOccupancyIsGroupSize ==
    VerifierAccepted => Occupancy(L, h[1]) + 1 = h[2]

\* the three conditions of the preference-style verifier
CenterListsHypothesis == Lists(central_player, h[1], h[2])
EveryPlacedLeafSatisfied ==
    \A leaf \in DOMAIN L :
        L[leaf] # void_activity => Lists(leaf, L[leaf], Occupancy(L, L[leaf]))
NoVoidLeafWantsToJoin ==
    \A leaf \in DOMAIN L :
        L[leaf] = void_activity =>
            ~ \E y \in U : Lists(leaf, y, Occupancy(L, y) + 1)

\* C2: the preference-style is_assignment_stable returns True exactly when
\* (1) the hypothesis is in the central list, (2) every leaf on a non-void
\* activity lists (activity, number of leaves on it) and (3) no void leaf
\* lists (y, leaves on y + 1) for a y of U; otherwise it returns False.
C2_PrefVerifierIsTheThreeConditions ==
    (VerifierDone /\ style = "pref") =>
        /\ result.kind = "value"
        /\ result.value \in {"True", "False"}
        /\ result.value = "True" <=>
              (CenterListsHypothesis /\ EveryPlacedLeafSatisfied
                 /\ NoVoidLeafWantsToJoin)

\* a verdict True on a colouring with a placed leaf and a void leaf that
\* lists some activity of U at another size
C2_Witness ==
    /\ VerifierAccepted /\ style = "pref"
    /\ \E leaf \in DOMAIN L : L[leaf] # void_activity
    /\ \E leaf \in DOMAIN L :
          /\ L[leaf] = void_activity
          /\ \E y \in U, n \in 1..MaxSize : Lists(leaf, y, n)

\* C5: the verifiers never raise on a hypothesis over a declared activity, a
\* non-empty subset and a colouring over the subset and void.
C5_VerifierNeverRaises ==
    VerifierDone => result.kind # "raised"

RandomSamplers == {"random_colouring", "random_colouring_opti", "heuristic_colouring"}
FilteredSamplers ==
    {"random_colouring_opti", "exhaustive_colouring_opti", "heuristic_colouring"}
AllSamplers ==
    RandomSamplers \cup FilteredSamplers
        \cup {"exhaustive_colouring", "cap_random_colouring"}

\* the leaf lists activity x at some size
ListsActivity(leaf, x) ==
    \E i \in DOMAIN preferences[leaf] : preferences[leaf][i][1] = x

\* the colourings of the list that the verifier accepts for hypothesis hyp,
\* in the order of the list
AcceptedOf(hyp, Uset, colourings) ==
    SelectSeq(colourings,
              LAMBDA c : is_assignment_stable(preferences, central_player,
                                              leaf_players, hyp, Uset, c) = "True")

\* C8: every colouring random_colouring, random_colouring_opti or
\* heuristic_colouring can produce for U is an element of
\* exhaustive_colouring(U); hence, for any hypothesis of the central list, a
\* sampled colouring the verifier accepts is among the accepted colourings of
\* the exhaustive list.
C8_SampledColouringIsEnumerated ==
    pc \in RandomSamplers =>
        LET all == exhaustive_colouring(leaf_players, U, order)
        IN /\ \E j \in DOMAIN all : all[j] = L
           /\ \A i \in 1..Len(preferences[central_player]) :
                 LET hyp == preferences[central_player][i]
                 IN is_assignment_stable(preferences, central_player,
                                         leaf_players, hyp, U, L) = "True"
                      => \E j \in DOMAIN AcceptedOf(hyp, U, all) :
                            AcceptedOf(hyp, U, all)[j] = L

\* a weighted draw over a one-activity subset that places one leaf, leaves
\* another on void and concerns a leaf that also lists an activity outside U
C8_Witness ==
    /\ pc = "heuristic_colouring"
    /\ Cardinality(U) = 1
    /\ \E leaf \in DOMAIN L : L[leaf] # void_activity
    /\ \E leaf \in DOMAIN L : L[leaf] = void_activity
    /\ \E leaf \in DOMAIN L : \E x \in ActivityNames \ U : ListsActivity(leaf, x)

C9_Complete ==
    pc \in AllSamplers =>
        /\ DOMAIN L = Range(leaf_players)
        /\ \A leaf \in Range(leaf_players) : L[leaf] \in U \cup {void_activity}

C9_Filtered ==
    pc \in FilteredSamplers =>
        \A leaf \in Range(leaf_players) :
            /\ \/ L[leaf] = void_activity
               \/ L[leaf] \in U /\ ListsActivity(leaf, L[leaf])
            /\ (~ \E x \in U : ListsActivity(leaf, x)) => L[leaf] = void_activity

\* C9: every colouring of every sampler maps every leaf, and only leaves, to
\* a member of U or void; the preference-filtered samplers give a leaf void or
\* an activity of U that the leaf lists, and void when it lists none of U;
\* no sampler changes the configuration.
C9_SamplersProduceCompleteColourings ==
    /\ [](C9_Complete /\ C9_Filtered)
    /\ [][config' = config]_vars

\* a filtered draw in which one leaf lists nothing of U and another leaf is
\* placed on an activity
C9_Witness ==
    /\ pc = "random_colouring_opti"
    /\ U # {}
    /\ \E leaf \in DOMAIN L :
          /\ preferences[leaf] # <<>>
          /\ ~ \E x \in U : ListsActivity(leaf, x)
    /\ \E leaf \in DOMAIN L : L[leaf] # void_activity

\* the entries owed to the pair (i-th hypothesis, j-th subset)
EntriesOf(i, j) ==
    LET acc == AcceptedOf(CenterGuesses[i], ActivityGuesses[j],
                          exhaustive_colouring(leaf_players, ActivityGuesses[j], order))
    IN [n \in 1..Len(acc) |-> DictWith(acc[n], central_player, CenterGuesses[i][1])]

ExpectedFindAll ==
    Concat([i \in 1..Len(CenterGuesses) |->
              Concat([j \in 1..Len(ActivityGuesses) |-> EntriesOf(i, j)])])

\* the list of exhaustive_colouring holds every colouring of the leaves over
\* the subset and void, each once
EnumerationIsTheProduct(Uset) ==
    LET all == exhaustive_colouring(leaf_players, Uset, order)
        colourings == [Range(leaf_players) -> Uset \cup {void_activity}]
    IN /\ Range(all) = colourings
       /\ Len(all) = Cardinality(colourings)

\* C4: find_all_nash_stable_assignments returns, in hypothesis order, then
\* subset order, then enumeration order, one entry for every triple of the
\* exhaustive product that the verifier accepts, and nothing else; the
\* enumeration is the whole Cartesian product.
C4_FindAllReturnsEveryAcceptedTriple ==
    /\ pc # "raised"
    /\ pc = "returned" =>
          /\ result = Returned(ExpectedFindAll)
          /\ \A j \in 1..Len(ActivityGuesses) :
                EnumerationIsTheProduct(ActivityGuesses[j])

\* a finished search over two hypotheses that kept at least two entries and
\* skipped at least one colouring
C4_Witness ==
    /\ pc = "returned"
    /\ Len(CenterGuesses) = 2
    /\ Len(result.value) >= 2
    /\ nAccepted < nVerified
    /\ Len(leaf_players) = 2

\* the verdict is the same for any two hypotheses of the central list
VerdictIgnoresHypothesis ==
    \A h1 \in Range(CenterGuesses), h2 \in Range(CenterGuesses) :
      \A UU \in NonEmptySubsets(ActivityNames) :
        \A la \in [Range(leaf_players) -> UU \cup {void_activity}] :
            is_assignment_stable(preferences, central_player, leaf_players,
                                 h1, UU, la)
              = is_assignment_stable(preferences, central_player, leaf_players,
                                     h2, UU, la)

\* the stable leaf colourings of the enumeration, for the first hypothesis
StableColourings ==
    IF Len(CenterGuesses) = 0 THEN <<>>
    ELSE AcceptedOf(CenterGuesses[1], ActivityGuesses[1],
                    exhaustive_colouring(leaf_players, ActivityGuesses[1], order))

LeafPart(assignment) == [leaf \in Range(leaf_players) |-> assignment[leaf]]

\* C10: the preference-style verdict does not depend on which entry of the
\* central list is the hypothesis; the result of find-all is, for each
\* central entry in turn, the same sequence of stable leaf colourings, so its
\* length is (central entries) x (stable colourings), and two entries naming
\* the same activity contribute identical assignments.
C10_VerdictIndependentOfHypothesis ==
    pc = "returned" =>
        LET n == Len(StableColourings)
            r == result.value
        IN /\ VerdictIgnoresHypothesis
           /\ Len(r) = Len(CenterGuesses) * n
           /\ \A i \in 1..Len(CenterGuesses), j \in 1..n :
                 /\ LeafPart(r[(i - 1) * n + j]) = StableColourings[j]
                 /\ r[(i - 1) * n + j][central_player] = CenterGuesses[i][1]
                 /\ \A i2 \in 1..Len(CenterGuesses) :
                       CenterGuesses[i2][1] = CenterGuesses[i][1]
                          => r[(i2 - 1) * n + j] = r[(i - 1) * n + j]

\* a finished search whose central list names one activity at two sizes and
\* that found a stable colouring placing a leaf
C10_Witness ==
    /\ pc = "returned"
    /\ Len(CenterGuesses) = 2
    /\ CenterGuesses[1][1] = CenterGuesses[2][1]
    /\ CenterGuesses[1][2] # CenterGuesses[2][2]
    /\ \E j \in 1..Len(StableColourings) :
          \E leaf \in Range(leaf_players) : StableColourings[j][leaf] # void_activity

\* number of triples that precede the current one in the nested order
\* hypothesis (outer), subset, colouring index (inner)
Rank == ((ci - 1) * Len(ActivityGuesses) + (si - 1)) * NumSamples + (k - 1)

SearchEnded == pc \in {"returned", "raised"}

LastVerdict ==
    IF style = "pref" THEN is_assignment_stable(preferences, central_player,
                                                leaf_players, h, U, L)
    ELSE cap_is_assignment_stable(leaf_players, h, U, L)

\* C3: find_nash_stable_assignment verifies the triples in the nested order
\* hypothesis, subset, colouring; it returns the colouring of the first
\* accepted triple extended with central player -> a* and verifies nothing
\* after it; it returns None if and only if no generated triple is accepted.
C3_FindOneReturnsFirstAccepted ==
    /\ nAccepted <= 1
    /\ pc = "loop" => (nAccepted = 0 /\ nVerified = Rank)
    /\ nAccepted = 1 =>
          /\ pc = "returned"
          /\ nVerified = Rank + 1
          /\ h = CenterGuesses[ci] /\ U = ActivityGuesses[si]
          /\ LastVerdict = "True"
          /\ result = Returned(DictWith(L, central_player, h[1]))
    /\ SearchEnded => (result.kind = "None" <=> nAccepted = 0)

\* the preference scenario: C lists (A,2), L1 lists (A,2), L2 lists (B,1)
C6_Scenario ==
    /\ style = "pref"
    /\ leaf_players = <<"L1", "L2">>
    /\ preferences = [p \in {"C", "L1", "L2"} |->
                         IF p = "L2" THEN << <<"B", 1>> >> ELSE << <<"A", 2>> >>]

\* C6: in the preference scenario the verifier rejects every colouring of
\* {L1, L2} over {A, void} and find_nash_stable_assignment returns None.
C6_PreferenceScenarioFindsNothing ==
    C6_Scenario =>
        /\ nAccepted = 0
        /\ SearchEnded => result.kind = "None"

\* the capacity scenario: central player C, leaves L1 and L2, activities A, B
C7_Scenario ==
    /\ style = "cap"
    /\ leaf_players = <<"L1", "L2">>
    /\ activities = <<"A", "B">>

\* C7: in the capacity scenario find_nash_stable_assignment returns an
\* assignment with C and exactly one leaf on A, the other leaf on B and no
\* leaf on void.
C7_CapacityScenarioFindsSplit ==
    (C7_Scenario /\ SearchEnded) =>
        /\ result.kind = "value"
        /\ result.value["C"] = "A"
        /\ \/ result.value["L1"] = "A" /\ result.value["L2"] = "B"
           \/ result.value["L1"] = "B" /\ result.value["L2"] = "A"

====
